---- MODULE Spec2Model ----
(***************************************************************************)
(* Model of scrapy/log.py: the Twisted-event adapter (_adapt_eventdict),   *)
(* the file and syslog observers with their stats-counting wrappers, the   *)
(* lazily built trace-engine registry (snapshot_trace) and start().        *)
(*                                                                         *)
(* Python objects are modelled as tagged records [k, n, s]: k is the       *)
(* Python type, n the numeric payload, s the sequence payload (the tokens  *)
(* of a string, the items of a tuple or list).  A dict is a function from  *)
(* its possible keys to such values, Absent marking a key that is not in   *)
(* the dict.  Dicts live in a heap of two slots so that copying and        *)
(* aliasing are different things.                                          *)
(***************************************************************************)
EXTENDS Integers, Sequences, FiniteSets, TLC

VARIABLES
    observers,      \* observers registered with twisted.python.log, in order
    showwarning,    \* warnings.showwarning
    sinks_built,    \* number of observer objects constructed by start
    trace_engines,  \* the module global of log.py:81
    traces,         \* the traces table of every database: rows inserted so far
    open_conns,     \* connections currently open, per database
    stats,          \* crawler.stats: counter name -> value
    logfile,        \* number of lines the file observer has written
    syslogd,        \* number of entries the syslog observer has written
    clock,          \* datetime.utcnow(), advanced by every snapshot_trace call
    built,          \* history: snapshot_trace calls during which an engine was made
    first,          \* history: the constrings of the first snapshot_trace call
    ncalls,         \* observer calls made so far
    call,           \* the last call: its arguments, heap, outcome and effects
    threads         \* the frames of snapshot_trace calls that run concurrently

vars == <<observers, showwarning, sinks_built, trace_engines, traces, open_conns,
          stats, logfile, syslogd, clock, built, first, ncalls, call, threads>>

---------------------------------------------------------------------------
(* Bounds of the model *)

\* observer calls per behaviour
MaxCalls == 2

---------------------------------------------------------------------------
(* Python values *)

Absent == [k |-> "absent", n |-> 0, s |-> <<>>]
PyNone == [k |-> "NoneType", n |-> 0, s |-> <<>>]
PyBool(b) == [k |-> "bool", n |-> IF b THEN 1 ELSE 0, s |-> <<>>]
PyInt(i) == [k |-> "int", n |-> i, s |-> <<>>]
PyFloat(i) == [k |-> "float", n |-> i, s |-> <<>>]
PyStr(toks) == [k |-> "str", n |-> 0, s |-> toks]
PyUni(toks) == [k |-> "unicode", n |-> 0, s |-> toks]
PyTuple(items) == [k |-> "tuple", n |-> 0, s |-> items]
PyList(items) == [k |-> "list", n |-> 0, s |-> items]
PyObj(cls, id) == [k |-> cls, n |-> id, s |-> <<>>]

IsNone(v) == v.k = "NoneType"
IsNum(v) == v.k \in {"int", "bool", "float"}

\* Python truth value of an object (an absent key never reaches a test: get() gives None)
Truthy(v) ==
    CASE v.k \in {"absent", "NoneType"} -> FALSE
      [] v.k \in {"int", "bool", "float"} -> v.n # 0
      [] v.k \in {"str", "unicode", "tuple", "list"} -> v.s # <<>>
      [] OTHER -> TRUE

\* Python 2 ordering a < b across types: None is below everything, numbers compare
\* by value and are below every other object
Py2Less(a, b) ==
    CASE IsNone(a) -> ~IsNone(b)
      [] IsNone(b) -> FALSE
      [] IsNum(a) /\ IsNum(b) -> a.n < b.n
      [] IsNum(a) -> TRUE
      [] OTHER -> FALSE

\* x evaluated once and handed to F: one statement followed by the rest
Bind(x, F(_)) == CHOOSE r \in {F(v) : v \in {x}} : TRUE

---------------------------------------------------------------------------
(* Logging levels, log.py:17-32 *)

DEBUG == 10
INFO == 20
WARNING == 30
ERROR == 40
CRITICAL == 50
SILENT == CRITICAL + 1

LevelNameTable ==
    [lv \in {DEBUG, INFO, WARNING, ERROR, CRITICAL, SILENT} |->
        CASE lv = DEBUG -> "DEBUG"
          [] lv = INFO -> "INFO"
          [] lv = WARNING -> "WARNING"
          [] lv = ERROR -> "ERROR"
          [] lv = CRITICAL -> "CRITICAL"
          [] OTHER -> "SILENT"]

\* level_names.get(level, default) for an int level
level_names_get(level, default) ==
    IF level.k = "int" /\ level.n \in DOMAIN LevelNameTable
    THEN LevelNameTable[level.n] ELSE default

---------------------------------------------------------------------------
(* Dicts and the heap *)

Keys == {"isError", "logLevel", "system", "spider", "message", "why", "format",
         "request", "failure"}

Refs == {"eventDict", "copy"}
NoneRef == "None"

EmptyDict == [key \in Keys |-> Absent]

\* d.get(key)
DictGet(d, key) == IF d[key].k = "absent" THEN PyNone ELSE d[key]

\* heap after h[ref][key] = value
SetItem(h, ref, key, value) == [h EXCEPT ![ref][key] = value]

\* heap after h[ref].setdefault(key, value)
SetDefault(h, ref, key, value) ==
    IF h[ref][key].k = "absent" THEN SetItem(h, ref, key, value) ELSE h

\* a mutant of DictCopy: ev = eventDict, the same object under another name
DictAlias(h, ref) == [heap |-> h, ref |-> ref]

\* eventDict.copy(): a new dict object with the same items
DictCopy(h, ref) == [heap |-> [h EXCEPT !["copy"] = h[ref]], ref |-> "copy"]

---------------------------------------------------------------------------
(* Strings *)

\* the bytes of one character in an encoding: ASCII maps to itself
EncodeToken(tok, encoding) ==
    IF tok = "e-acute"
    THEN (IF encoding = "utf-8" THEN "C3A9" ELSE "E9")
    ELSE tok

\* scrapy.utils.python.unicode_to_str: a unicode object is encoded to a byte
\* string, a byte string is returned as it is
unicode_to_str(text, encoding) ==
    IF text.k = "unicode"
    THEN PyStr([i \in DOMAIN text.s |-> EncodeToken(text.s[i], encoding)])
    ELSE text

\* a mutant of PrependLevel: the prefix is left out
PrependNothing(lvlname, x) == x

\* "%s: %s" % (lvlname, x)
PrependLevel(lvlname, x) == PyStr(<<lvlname, ": ">> \o x.s)

\* a == b for an object and a str literal (ASCII unicode equals the same str)
PyStrEq(a, b) == a.k \in {"str", "unicode"} /\ a.s = b.s

---------------------------------------------------------------------------
(* _adapt_eventdict, log.py:121-167 *)

\* a mutant of OriginDrop: ev['system'] is read only when it is there
OriginDropPresent(d) ==
    /\ d["system"].k # "absent"
    /\ ~PyStrEq(d["system"], PyStr(<<"scrapy">>))
    /\ ~Truthy(d["isError"])

\* log.py:134: a non-error event from outside scrapy
OriginDrop(d) ==
    ~PyStrEq(DictGet(d, "system"), PyStr(<<"scrapy">>)) /\ ~Truthy(d["isError"])

\* a mutant of SeverityDrop: the threshold itself is dropped too
SeverityDropInclusive(level, log_level) ==
    Py2Less(level, log_level) \/ level = log_level

\* log.py:138: level < log_level
SeverityDrop(level, log_level) == Py2Less(level, log_level)

\* the name of a spider object: s holds its tokens, n = 1 marks a unicode name
SpiderName(spider) == IF spider.n = 1 THEN PyUni(spider.s) ELSE PyStr(spider.s)

\* log.py:141-143
AdaptSystem(h, ev, encoding) ==
    LET spider == DictGet(h[ev], "spider")
    IN IF Truthy(spider)
       THEN SetItem(h, ev, "system", unicode_to_str(SpiderName(spider), encoding))
       ELSE h

\* a mutant of AdaptMessage: every fragment gets the prefix
AdaptMessageAll(h, ev, lvlname, encoding, prepend_level) ==
    LET message == DictGet(h[ev], "message")
    IN IF Truthy(message)
       THEN SetItem(h, ev, "message",
                PyList([i \in DOMAIN message.s |->
                    PrependLevel(lvlname, unicode_to_str(message.s[i], encoding))]))
       ELSE h

\* log.py:146-151
AdaptMessage(h, ev, lvlname, encoding, prepend_level) ==
    LET message == DictGet(h[ev], "message")
    IN IF Truthy(message)
       THEN Bind([i \in DOMAIN message.s |-> unicode_to_str(message.s[i], encoding)],
                 LAMBDA encoded :
                 SetItem(h, ev, "message",
                     PyList(IF prepend_level
                            THEN [encoded EXCEPT ![1] = PrependLevel(lvlname, encoded[1])]
                            ELSE encoded)))
       ELSE h

\* log.py:153-158 for key = "why", log.py:160-165 for key = "format"
AdaptString(h, ev, key, lvlname, encoding, prepend_level) ==
    LET x == DictGet(h[ev], key)
    IN IF Truthy(x)
       THEN LET encoded == unicode_to_str(x, encoding)
            IN SetItem(h, ev, key,
                   IF prepend_level THEN PrependLevel(lvlname, encoded) ELSE encoded)
       ELSE h

\* _adapt_eventdict(eventDict, log_level, encoding, prepend_level) on heap h:
\* the heap afterwards and the reference returned (NoneRef for None)
_adapt_eventdict(h, eventDict, log_level, encoding, prepend_level) ==
    Bind(DictCopy(h, eventDict), LAMBDA c :
    Bind(IF Truthy(c.heap[c.ref]["isError"])
         THEN SetDefault(c.heap, c.ref, "logLevel", PyInt(ERROR))
         ELSE c.heap, LAMBDA h1 :
    Bind(DictGet(h1[c.ref], "logLevel"), LAMBDA level :
    IF OriginDrop(h1[c.ref]) \/ SeverityDrop(level, log_level)
    THEN [heap |-> h1, ret |-> NoneRef]
    ELSE
    Bind(AdaptSystem(h1, c.ref, encoding), LAMBDA h2 :
    Bind(level_names_get(level, "NOLEVEL"), LAMBDA lvlname :
    Bind(AdaptMessage(h2, c.ref, lvlname, encoding, prepend_level), LAMBDA h3 :
    Bind(AdaptString(h3, c.ref, "why", lvlname, encoding, prepend_level), LAMBDA h4 :
    Bind(AdaptString(h4, c.ref, "format", lvlname, encoding, prepend_level), LAMBDA h5 :
    [heap |-> h5, ret |-> c.ref]))))))))

---------------------------------------------------------------------------
(* twisted.python.log: rendering an event as text *)

\* a + b for two strings: unicode when either is
Concat(a, b) ==
    [k |-> IF "unicode" \in {a.k, b.k} THEN "unicode" ELSE "str", n |-> 0, s |-> a.s \o b.s]

RECURSIVE Join(_)
\* ' '.join(items) as tokens
Join(items) ==
    IF items = <<>> THEN <<>>
    ELSE IF Len(items) = 1 THEN items[1].s
    ELSE items[1].s \o <<" ">> \o Join(Tail(items))

\* one token of a format string under fmt % d: %(system)s is the one named
\* substitution the model's formats use
FormatToken(tok, d) ==
    IF tok = "%(system)s"
    THEN (IF d["system"].k = "absent" THEN <<"<KeyError>">> ELSE d["system"].s)
    ELSE <<tok>>

RECURSIVE FormatTokens(_, _)
FormatTokens(toks, d) ==
    IF toks = <<>> THEN <<>>
    ELSE FormatToken(Head(toks), d) \o FormatTokens(Tail(toks), d)

\* twisted's _safeFormat(fmtString, fmtDict): never raises
_safeFormat(fmt, d) ==
    IF fmt.k \in {"str", "unicode"}
    THEN PyStr(FormatTokens(fmt.s, d))
    ELSE PyStr(<<"Invalid format string or unformattable object in log message">>)

\* twisted's textFromEventDict(eventDict): None when there is nothing to render.
\* Every event twisted's log.msg builds carries a message tuple.
textFromEventDict(d) ==
    LET edm == DictGet(d, "message")
        why == DictGet(d, "why")
    IN IF ~Truthy(edm)
       THEN IF Truthy(d["isError"]) /\ d["failure"].k # "absent"
            THEN Concat(IF Truthy(why) THEN why ELSE PyStr(<<"Unhandled Error">>),
                        PyStr(<<"\n", "Traceback">>))
            ELSE IF d["format"].k # "absent"
            THEN _safeFormat(d["format"], d)
            ELSE PyNone
       ELSE PyStr(Join(edm.s))

---------------------------------------------------------------------------
(* The world a call acts on, and its effects in order *)

NoRow == [snapshot_id |-> PyNone, code |-> 0, message |-> PyNone,
          created_at |-> 0, updated_at |-> 0]

Effect(e, db, row) == [e |-> e, db |-> db, row |-> row]

\* an effect that carries a text instead of a table row
TextEffect(e, who, text) == Effect(e, who, [NoRow EXCEPT !.message = text])

AddEffect(w, eff) == [w EXCEPT !.effects = Append(@, eff)]

Raise(w, exc) == [w EXCEPT !.exc = exc, !.ret = NoneRef]

---------------------------------------------------------------------------
(* snapshot_trace, log.py:81-93 *)

\* the connection strings sqlalchemy cannot make an engine of
BadConstrs == {"bogus"}

\* a mutant of AssignRegistry: the list is assigned only if the registry is
\* still None
AssignIfNone(current, engines) ==
    IF IsNone(current) THEN PyList(engines) ELSE current

\* the assignment of log.py:85: trace_engines = [...], whatever it holds by then
AssignRegistry(current, engines) == PyList(engines)

RECURSIVE CreateEngines(_, _, _)
\* the list comprehension of log.py:85 from item i on: create_engine raises
\* ArgumentError on a string it cannot parse, and the assignment never happens
CreateEngines(w, constrs, i) ==
    IF i > Len(constrs)
    THEN [w EXCEPT !.trace_engines = AssignRegistry(@, constrs)]
    ELSE IF constrs[i] \in BadConstrs
    THEN Raise(AddEffect(w, Effect("create_engine_failed", constrs[i], NoRow)),
               "ArgumentError")
    ELSE Bind(AddEffect(w, Effect("create_engine", constrs[i], NoRow)), LAMBDA w1 :
         CreateEngines(w1, constrs, i + 1))

\* a mutant of BuildRegistry: the engines are made anew on every call
BuildRegistryAlways(w, constrings) ==
    IF constrings.k \notin {"list", "tuple"}
    THEN Raise(w, "TypeError")
    ELSE Bind(CreateEngines(w, constrings.s, 1), LAMBDA w1 :
         IF \E j \in DOMAIN w1.effects : w1.effects[j].e = "create_engine"
         THEN [w1 EXCEPT !.built = @ + 1] ELSE w1)

\* log.py:84-85; built counts the calls in which create_engine returned an engine
BuildRegistry(w, constrings) ==
    IF ~IsNone(w.trace_engines) THEN w
    ELSE IF constrings.k \notin {"list", "tuple"}
    THEN Raise(w, "TypeError")
    ELSE Bind(CreateEngines(w, constrings.s, 1), LAMBDA w1 :
         IF \E j \in DOMAIN w1.effects : w1.effects[j].e = "create_engine"
         THEN [w1 EXCEPT !.built = @ + 1] ELSE w1)

\* a mutant of TraceRow: updated_at is taken a tick after created_at
TraceRowLate(snapshot_id, code, message, now) ==
    [snapshot_id |-> snapshot_id, code |-> code, message |-> message,
     created_at |-> now, updated_at |-> now + 1]

\* the values of log.py:91
TraceRow(snapshot_id, code, message, now) ==
    [snapshot_id |-> snapshot_id, code |-> code, message |-> message,
     created_at |-> now, updated_at |-> now]

\* conn = engine_instance.connect(), log.py:89
Connect(w, db) ==
    AddEffect([w EXCEPT !.open_conns[db] = @ + 1], Effect("connect", db, NoRow))

\* a mutant of Close: the connection is left open
CloseNothing(w, db) == w

\* conn.close(), log.py:93
Close(w, db) ==
    AddEffect([w EXCEPT !.open_conns[db] = @ - 1], Effect("close", db, NoRow))

\* conn.execute(traces.insert().values(...)), log.py:91
Execute(w, db, row) ==
    AddEffect([w EXCEPT !.traces[db] = Append(@, row)], Effect("insert", db, row))

RECURSIVE InsertAllContinue(_, _, _, _, _)
\* a mutant of InsertAll: a failing engine is skipped and the loop goes on
InsertAllContinue(w, engines, i, row, fail) ==
    IF i > Len(engines) THEN w
    ELSE IF fail.at = i /\ fail.kind = "connect"
    THEN Bind(AddEffect(w, Effect("connect_failed", engines[i], NoRow)), LAMBDA w1 :
         InsertAllContinue(w1, engines, i + 1, row, fail))
    ELSE Bind(Connect(w, engines[i]), LAMBDA w1 :
         IF fail.at = i /\ fail.kind = "execute"
         THEN Bind(AddEffect(w1, Effect("execute_failed", engines[i], row)), LAMBDA w2 :
              Bind(Close(w2, engines[i]), LAMBDA w3 :
              InsertAllContinue(w3, engines, i + 1, row, fail)))
         ELSE Bind(Execute(w1, engines[i], row), LAMBDA w2 :
              Bind(Close(w2, engines[i]), LAMBDA w3 :
              InsertAllContinue(w3, engines, i + 1, row, fail))))

RECURSIVE InsertAll(_, _, _, _, _)
\* the loop of log.py:88-93 from engine i on.  fail names the engine whose
\* connect() or execute() raises in this call (at = 0: none does).
InsertAll(w, engines, i, row, fail) ==
    IF i > Len(engines) THEN w
    ELSE IF fail.at = i /\ fail.kind = "connect"
    THEN Raise(AddEffect(w, Effect("connect_failed", engines[i], NoRow)),
               "OperationalError")
    ELSE Bind(Connect(w, engines[i]), LAMBDA w1 :
         IF fail.at = i /\ fail.kind = "execute"
         THEN Bind(AddEffect(w1, Effect("execute_failed", engines[i], row)), LAMBDA w2 :
              Bind(Close(w2, engines[i]), LAMBDA w3 :
              Raise(w3, "OperationalError")))
         ELSE Bind(Execute(w1, engines[i], row), LAMBDA w2 :
              Bind(Close(w2, engines[i]), LAMBDA w3 :
              InsertAll(w3, engines, i + 1, row, fail))))

\* snapshot_trace(constrings, snapshot_id, code, message)
snapshot_trace(w, constrings, snapshot_id, code, message, fail) ==
    Bind(AddEffect([w EXCEPT !.first = IF @.k = "absent" THEN constrings ELSE @],
                   Effect("snapshot_trace", "", NoRow)), LAMBDA w0 :
    Bind(BuildRegistry(w0, constrings), LAMBDA w1 :
    IF w1.exc # "" THEN w1
    ELSE Bind([w1 EXCEPT !.clock = @ + 1], LAMBDA w2 :
         InsertAll(w2, w2.trace_engines.s, 1,
                   TraceRow(snapshot_id, code, message, w1.clock), fail))))

---------------------------------------------------------------------------
(* ScrapyFileLogObserver and ScrapySyslogObserver, log.py:34-64 and 95-119 *)

\* a request object: s holds meta.get('politepol_snapshot_id') and
\* meta.get('politepol_constrings') as stored (Absent: the key is not in meta)
Request(snapshot_id, constrings) ==
    [k |-> "Request", n |-> 0, s |-> <<snapshot_id, constrings>>]

\* request.meta.get(key)
MetaGet(request, key) ==
    LET v == IF key = "politepol_snapshot_id" THEN request.s[1] ELSE request.s[2]
    IN IF v.k = "absent" THEN PyNone ELSE v

\* twisted's FileLogObserver.emit: an event with no text writes nothing
FileLogObserver_emit(w, d) ==
    Bind(textFromEventDict(d), LAMBDA text :
    IF IsNone(text) THEN w
    ELSE Bind(Concat(Concat(PyStr(<<"[">> \o DictGet(d, "system").s), PyStr(<<"] ">>)),
                     text), LAMBDA line :
         AddEffect([w EXCEPT !.logfile = @ + 1],
                   TextEffect("write", "logfile", line))))

\* twisted's SyslogObserver.emit
SyslogObserver_emit(w, d) ==
    Bind(textFromEventDict(d), LAMBDA text :
    IF IsNone(text) THEN w
    ELSE AddEffect([w EXCEPT !.syslogd = @ + 1],
                   TextEffect("syslog", "syslog", text)))

\* a mutant of TraceCode: the level goes in as it is
TraceCodePlain(level) == level.n

\* log.py:56: -ev['logLevel'] if ev['logLevel'] >= ERROR else ev['logLevel']
TraceCode(level) == IF ~Py2Less(level, PyInt(ERROR)) THEN 0 - level.n ELSE level.n

\* log.py:50-56, after the text line is written
FileTrace(w, ev, fail) ==
    Bind(DictGet(w.heap[ev], "request"), LAMBDA request :
    IF ~Truthy(request) THEN w
    ELSE
    Bind(MetaGet(request, "politepol_snapshot_id"), LAMBDA snapshot_id :
    IF ~Truthy(snapshot_id) THEN w
    ELSE
    Bind(MetaGet(request, "politepol_constrings"), LAMBDA constrings :
    Bind(w.heap[ev]["format"], LAMBDA fmt :
    IF fmt.k = "absent" THEN Raise(w, "KeyError")
    ELSE IF fmt.k \notin {"str", "unicode"} THEN Raise(w, "TypeError")
    ELSE
    Bind([w EXCEPT !.heap = SetItem(w.heap, ev, "format",
                                    Concat(PyStr(<<"Scrapy: ">>), fmt))], LAMBDA w1 :
    Bind(textFromEventDict(w1.heap[ev]), LAMBDA message :
    snapshot_trace(w1, constrings, snapshot_id,
                   TraceCode(w1.heap[ev]["logLevel"]), message, fail)))))))

\* a mutant of File_emit: the line is written whether the event is dropped or not
File_emit_Unfiltered(w, obs, fail) ==
    Bind(_adapt_eventdict(w.heap, "eventDict", obs.level, obs.encoding, TRUE), LAMBDA a :
    Bind([w EXCEPT !.heap = a.heap, !.ret = a.ret, !.adapted = a.ret], LAMBDA w1 :
    Bind(FileLogObserver_emit(w1, w1.heap["copy"]), LAMBDA w2 :
    IF a.ret = NoneRef THEN w2 ELSE FileTrace(w2, a.ret, fail))))

\* a mutant of File_emit: the trace is persisted before the text line is written
File_emit_TraceFirst(w, obs, fail) ==
    Bind(_adapt_eventdict(w.heap, "eventDict", obs.level, obs.encoding, TRUE), LAMBDA a :
    Bind([w EXCEPT !.heap = a.heap, !.ret = a.ret, !.adapted = a.ret], LAMBDA w1 :
    IF a.ret = NoneRef THEN w1
    ELSE Bind(FileTrace(w1, a.ret, fail), LAMBDA w2 :
         IF w2.exc # "" THEN w2
         ELSE FileLogObserver_emit(w2, w2.heap[a.ret]))))

\* ScrapyFileLogObserver._emit
File_emit(w, obs, fail) ==
    Bind(_adapt_eventdict(w.heap, "eventDict", obs.level, obs.encoding, TRUE), LAMBDA a :
    Bind([w EXCEPT !.heap = a.heap, !.ret = a.ret, !.adapted = a.ret], LAMBDA w1 :
    IF a.ret = NoneRef THEN w1
    ELSE Bind(FileLogObserver_emit(w1, w1.heap[a.ret]), LAMBDA w2 :
         FileTrace(w2, a.ret, fail))))

\* a mutant of Syslog_emit: the syslog sink persists the trace as the text sink does
Syslog_emit_Trace(w, obs, fail) ==
    Bind(_adapt_eventdict(w.heap, "eventDict", obs.level, obs.encoding, FALSE), LAMBDA a :
    Bind([w EXCEPT !.heap = a.heap, !.ret = a.ret, !.adapted = a.ret], LAMBDA w1 :
    IF a.ret = NoneRef THEN w1
    ELSE Bind(SyslogObserver_emit(w1, w1.heap[a.ret]), LAMBDA w2 :
         FileTrace(w2, a.ret, fail))))

\* ScrapySyslogObserver._emit
Syslog_emit(w, obs, fail) ==
    Bind(_adapt_eventdict(w.heap, "eventDict", obs.level, obs.encoding, FALSE), LAMBDA a :
    Bind([w EXCEPT !.heap = a.heap, !.ret = a.ret, !.adapted = a.ret], LAMBDA w1 :
    IF a.ret = NoneRef THEN w1
    ELSE SyslogObserver_emit(w1, w1.heap[a.ret])))

\* the counter name 'log_count/%s' % level_names.get(level, level)
StatName(level) == <<"log_count/", level_names_get(level, ToString(level.n))>>

\* a mutant of inc_value: the counter is set, not incremented
set_value(w, sname) ==
    AddEffect([w EXCEPT !.stats =
                  IF sname \in DOMAIN @ THEN [@ EXCEPT ![sname] = 1]
                  ELSE @ @@ (sname :> 1)],
              Effect("inc_value", sname[2], NoRow))

\* crawler.stats.inc_value(sname)
inc_value(w, sname) ==
    AddEffect([w EXCEPT !.stats =
                  IF sname \in DOMAIN @ THEN [@ EXCEPT ![sname] = @ + 1]
                  ELSE @ @@ (sname :> 1)],
              Effect("inc_value", sname[2], NoRow))

\* _emit_with_crawler of either class (log.py:59-64, 114-119): a raise of _emit
\* passes through, a dict (never empty here) counts, and nothing is returned
_emit_with_crawler(w) ==
    IF w.exc # "" THEN w
    ELSE IF w.ret # NoneRef
    THEN [inc_value(w, StatName(w.heap[w.ret]["logLevel"])) EXCEPT !.ret = NoneRef]
    ELSE w

\* obs.emit(eventDict) as bound by __init__ (log.py:39-43, 101-105); inner keeps
\* what _emit returned
Emit(w, obs, fail) ==
    Bind(IF obs.cls = "file" THEN File_emit(w, obs, fail) ELSE Syslog_emit(w, obs, fail),
         LAMBDA w1 :
    Bind([w1 EXCEPT !.inner = w1.ret], LAMBDA w2 :
    IF obs.crawler THEN _emit_with_crawler(w2) ELSE w2))

---------------------------------------------------------------------------
(* _get_log_level and start, log.py:169-188 *)

\* module globals of log.py that are not levels, among the names tried
OtherGlobals == {"log", "level_names"}

\* globals()[name]
GlobalsGet(name) ==
    CASE name = "DEBUG" -> PyInt(DEBUG)
      [] name = "INFO" -> PyInt(INFO)
      [] name = "WARNING" -> PyInt(WARNING)
      [] name = "ERROR" -> PyInt(ERROR)
      [] name = "CRITICAL" -> PyInt(CRITICAL)
      [] name = "SILENT" -> PyInt(SILENT)
      [] name \in OtherGlobals -> PyObj("object", 0)
      [] OTHER -> Absent

\* _get_log_level(level_name_or_id): the value returned, or the exception raised
_get_log_level(level_name_or_id) ==
    IF level_name_or_id.k \in {"int", "bool"}
    THEN [exc |-> "", value |-> level_name_or_id]
    ELSE IF level_name_or_id.k \in {"str", "unicode"}
    THEN LET g == GlobalsGet(level_name_or_id.s[1])
         IN IF g.k = "absent" THEN [exc |-> "KeyError", value |-> PyNone]
            ELSE [exc |-> "", value |-> g]
    ELSE [exc |-> "ValueError", value |-> PyNone]

Observer(cls, level, encoding, crawler) ==
    [cls |-> cls, level |-> level, encoding |-> encoding, crawler |-> crawler]

---------------------------------------------------------------------------
(* Inputs *)

Event(isError, logLevel, system, spider, message, why, format, request, failure) ==
    [key \in Keys |->
        CASE key = "isError" -> isError
          [] key = "logLevel" -> logLevel
          [] key = "system" -> system
          [] key = "spider" -> spider
          [] key = "message" -> message
          [] key = "why" -> why
          [] key = "format" -> format
          [] key = "request" -> request
          [] OTHER -> failure]

Constrs == {"db_a", "db_b"} \cup BadConstrs
DBs == Constrs \ BadConstrs

\* politepol_constrings as found in request.meta
ConstringsValues ==
    {Absent} \cup
    {PyList(cs) : cs \in {<<>>, <<"db_a">>, <<"db_b">>, <<"db_a", "db_b">>,
                          <<"db_b", "db_a">>, <<"bogus">>, <<"db_a", "bogus">>}}

\* ev.get('request'): no request, a request without a usable snapshot id, and
\* requests of snapshot 42 with every constrings value
Requests ==
    {Absent}
    \cup {Request(sid, PyList(<<"db_a">>)) : sid \in {Absent, PyInt(0)}}
    \cup {Request(PyInt(42), cs) : cs \in ConstringsValues}
    \cup {Request(PyInt(7), PyList(<<"db_b">>))}

\* the events delivered to the observers: made by twisted's log.msg and log.err,
\* so isError, system and the message tuple are always there
MessageEvent(lv, sys, rq) ==
    Event(PyBool(FALSE), lv, sys, Absent, PyTuple(<<PyStr(<<"disk low">>)>>), Absent,
          Absent, rq, Absent)

FormatEvent(lv, sys, rq) ==
    Event(PyBool(FALSE), lv, sys, Absent, PyTuple(<<>>), Absent,
          PyStr(<<"Crawled by ", "%(system)s">>), rq, Absent)

ErrEvent(lv, why, rq) ==
    Event(PyBool(TRUE), lv, PyStr(<<"-">>), Absent, PyTuple(<<>>), why, Absent, rq,
          PyObj("Failure", 0))

PipelineEvents ==
    {FormatEvent(lv, PyStr(<<"scrapy">>), rq) :
        lv \in {PyInt(INFO), PyInt(ERROR)}, rq \in Requests}
    \cup
    {FormatEvent(lv, sys, rq) :
        lv \in {Absent, PyInt(INFO)}, sys \in {PyStr(<<"scrapy">>), PyStr(<<"-">>)},
        rq \in {Absent, Request(PyInt(42), PyList(<<"db_a">>))}}
    \cup
    {MessageEvent(lv, sys, rq) :
        lv \in {Absent, PyInt(INFO), PyInt(ERROR)},
        sys \in {PyStr(<<"scrapy">>), PyStr(<<"-">>)},
        rq \in {Absent, Request(PyInt(42), PyList(<<"db_a">>))}}
    \cup
    {ErrEvent(lv, why, rq) :
        lv \in {Absent, PyInt(INFO)}, why \in {PyNone, PyStr(<<"boom">>)},
        rq \in {Absent, Request(PyInt(42), PyList(<<"db_a">>))}}

\* the engine whose connect() or execute() fails during one call, if any; a
\* call for an event without a request reaches no database
Failures(raw) ==
    {[at |-> 0, kind |-> "none"]} \cup
    (IF raw["request"].k = "absent" THEN {}
     ELSE {[at |-> i, kind |-> kd] : i \in 1..2, kd \in {"connect", "execute"}})

\* the loglevel argument of start
LevelArgs ==
    {PyStr(<<"INFO">>), PyInt(INFO), PyInt(45), PyStr(<<"log">>),
     PyStr(<<"NOTALEVEL">>), PyFloat(1)}

\* the arguments of a direct call of _adapt_eventdict
AdaptEvents ==
    {Event(PyBool(err), lv, sys, sp, msg, why, fmt, Absent, Absent) :
        err \in BOOLEAN,
        lv \in {Absent} \cup {PyInt(n) : n \in {DEBUG, WARNING, 35, ERROR, CRITICAL}},
        sys \in {Absent, PyStr(<<"scrapy">>), PyStr(<<"-">>)},
        sp \in {Absent, [k |-> "Spider", n |-> 1, s |-> <<"caf", "e-acute">>]},
        msg \in {Absent, PyTuple(<<>>), PyTuple(<<PyStr(<<"disk low">>)>>),
                 PyTuple(<<PyUni(<<"e-acute">>), PyUni(<<"t", "e-acute">>)>>),
                 PyTuple(<<PyStr(<<>>), PyStr(<<"x">>)>>)},
        why \in {Absent, PyNone, PyStr(<<>>), PyUni(<<"e-acute">>)},
        fmt \in {Absent, PyStr(<<>>), PyStr(<<"Crawled by ", "%(system)s">>)}}

AdaptLevels == {PyInt(DEBUG), PyInt(INFO), PyInt(ERROR), PyInt(SILENT)}
Encodings == {"utf-8", "latin-1"}

---------------------------------------------------------------------------
(* State *)

NoObserver == Observer("none", PyNone, "utf-8", FALSE)

NoCall ==
    [op |-> "none", obs |-> NoObserver, prepend |-> FALSE, arg |-> PyNone,
     raw |-> EmptyDict, heap |-> [r \in Refs |-> EmptyDict],
     ret |-> NoneRef, inner |-> NoneRef, adapted |-> NoneRef, exc |-> "",
     effects |-> <<>>]

Init ==
    /\ observers = <<>>
    /\ showwarning = "default"
    /\ sinks_built = 0
    /\ trace_engines = PyNone
    /\ traces = [db \in DBs |-> <<>>]
    /\ open_conns = [db \in DBs |-> 0]
    /\ stats = <<>>
    /\ logfile = 0
    /\ syslogd = 0
    /\ clock = 0
    /\ built = 0
    /\ first = Absent
    /\ ncalls = 0
    /\ threads = <<>>
    /\ call = NoCall

\* the world an observer call starts from
World(raw) ==
    [trace_engines |-> trace_engines, traces |-> traces, open_conns |-> open_conns,
     stats |-> stats, logfile |-> logfile, syslogd |-> syslogd, clock |-> clock,
     built |-> built, first |-> first,
     heap |-> [r \in Refs |-> IF r = "eventDict" THEN raw ELSE EmptyDict],
     effects |-> <<>>, exc |-> "", ret |-> NoneRef, inner |-> NoneRef,
     adapted |-> NoneRef]

\* twisted calls observer i with an event
Deliver(i, raw, fail) ==
    /\ call.op = "none"
    /\ ncalls < MaxCalls
    /\ i \in DOMAIN observers
    /\ \E w \in {Emit(World(raw), observers[i], fail)} :
          /\ trace_engines' = w.trace_engines
          /\ traces' = w.traces
          /\ open_conns' = w.open_conns
          /\ stats' = w.stats
          /\ logfile' = w.logfile
          /\ syslogd' = w.syslogd
          /\ clock' = w.clock
          /\ built' = w.built
          /\ first' = w.first
          /\ call' = [NoCall EXCEPT !.op = "emit", !.obs = observers[i],
                        !.prepend = (observers[i].cls = "file"),
                        !.raw = raw, !.heap = w.heap, !.ret = w.ret,
                        !.inner = w.inner, !.adapted = w.adapted, !.exc = w.exc,
                        !.effects = w.effects]
    /\ ncalls' = ncalls + 1
    /\ UNCHANGED <<observers, showwarning, sinks_built, threads>>

\* a mutant of RestoreShowwarning: the handler twisted installed is left in place
KeepShowwarning(_oldshowwarning, current) == current

\* warnings.showwarning = _oldshowwarning, log.py:187
RestoreShowwarning(_oldshowwarning, current) == _oldshowwarning

\* start(logfile, loglevel, logstdout, logencoding, crawler), log.py:177-188,
\* called at start-up (start_from_settings), before any observer is registered
Start(loglevel, logencoding, crawler) ==
    /\ call.op = "none"
    /\ observers = <<>>
    /\ LET r == _get_log_level(loglevel)
           obs == Observer("file", r.value, logencoding, crawler)
           syslog_obs == Observer("syslog", r.value, logencoding, crawler)
           _oldshowwarning == showwarning
           silenced == "twisted"
       IN IF r.exc # ""
          THEN /\ call' = [NoCall EXCEPT !.op = "start", !.arg = loglevel, !.exc = r.exc]
               /\ UNCHANGED <<observers, showwarning, sinks_built>>
          ELSE /\ sinks_built' = sinks_built + 2
               /\ observers' = observers \o <<obs, syslog_obs>>
               /\ showwarning' = RestoreShowwarning(_oldshowwarning, silenced)
               /\ call' = [NoCall EXCEPT !.op = "start", !.arg = loglevel, !.obs = obs,
                             !.effects = <<Effect("construct", "file", NoRow),
                                           Effect("construct", "syslog", NoRow),
                                           Effect("startLoggingWithObserver", "file", NoRow),
                                           Effect("showwarning", silenced, NoRow),
                                           Effect("addObserver", "syslog", NoRow),
                                           Effect("showwarning",
                                                  RestoreShowwarning(_oldshowwarning,
                                                                     silenced),
                                                  NoRow)>>]
    /\ UNCHANGED <<trace_engines, traces, open_conns, stats, logfile, syslogd, clock,
                   built, first, ncalls, threads>>

\* the call returns to its caller and its frame is gone
Return ==
    /\ call.op # "none"
    /\ call' = NoCall
    /\ UNCHANGED <<observers, showwarning, sinks_built, trace_engines, traces,
                   open_conns, stats, logfile, syslogd, clock, built, first, ncalls, threads>>

Next ==
    \/ \E loglevel \in LevelArgs, crawler \in BOOLEAN : Start(loglevel, "utf-8", crawler)
    \/ \E i \in DOMAIN observers, raw \in PipelineEvents :
          \E fail \in Failures(raw) : Deliver(i, raw, fail)
    \/ Return

Spec == Init /\ [][Next]_vars

---------------------------------------------------------------------------
(* The wired pipeline: one log call reaches both observers *)

\* the world the next observer starts from: the same eventDict object, a new
\* frame, and what the observer before it did.  twisted's publisher catches what
\* an observer raises and goes on to the next observer.
Handover(w) ==
    [w EXCEPT !.heap = [r \in Refs |-> IF r = "eventDict" THEN w.heap["eventDict"]
                                       ELSE EmptyDict],
              !.exc = "", !.ret = NoneRef, !.inner = NoneRef, !.adapted = NoneRef]

\* one log.msg / log.err: twisted calls the observers start registered (log.py:
\* 184-185), the text observer and then the syslog observer, with the event.
\* call keeps the text observer's outcome and the effects of both.
Log(raw, fail) ==
    /\ call.op = "none"
    /\ ncalls < MaxCalls
    /\ Len(observers) = 2
    /\ \E w1 \in {Emit(World(raw), observers[1], fail)} :
       \E w2 \in {Emit(Handover(w1), observers[2], fail)} :
          /\ trace_engines' = w2.trace_engines
          /\ traces' = w2.traces
          /\ open_conns' = w2.open_conns
          /\ stats' = w2.stats
          /\ logfile' = w2.logfile
          /\ syslogd' = w2.syslogd
          /\ clock' = w2.clock
          /\ built' = w2.built
          /\ first' = w2.first
          /\ call' = [NoCall EXCEPT !.op = "log", !.obs = observers[1],
                        !.prepend = TRUE, !.raw = raw, !.heap = w2.heap,
                        !.ret = w1.ret, !.inner = w1.inner, !.adapted = w1.adapted,
                        !.exc = w1.exc, !.effects = w2.effects]
    /\ ncalls' = ncalls + 1
    /\ UNCHANGED <<observers, showwarning, sinks_built, threads>>

NextWired ==
    \/ \E loglevel \in LevelArgs, crawler \in BOOLEAN : Start(loglevel, "utf-8", crawler)
    \/ \E raw \in PipelineEvents : \E fail \in Failures(raw) : Log(raw, fail)
    \/ Return

SpecWired == Init /\ [][NextWired]_vars

---------------------------------------------------------------------------
(* Two threads in snapshot_trace, log.py:82-93, one step per read or write of
   the module global, per create_engine and per database call: the interpreter
   may switch threads between any two of them *)

Threads == {1, 2}

\* the lists the concurrent calls carry
RaceLists == {<<"db_a">>, <<"db_b">>, <<"db_a", "db_b">>}

\* the frame of thread t's call snapshot_trace(constrings, t, INFO, 'm')
Frame(constrings) ==
    [pc |-> "check", constrings |-> constrings, local |-> <<>>, iter |-> <<>>,
     pos |-> 1, now |-> 0]

InitRace ==
    /\ observers = <<>>
    /\ showwarning = "default"
    /\ sinks_built = 0
    /\ trace_engines = PyNone
    /\ traces = [db \in DBs |-> <<>>]
    /\ open_conns = [db \in DBs |-> 0]
    /\ stats = <<>>
    /\ logfile = 0
    /\ syslogd = 0
    /\ clock = 0
    /\ built = 0
    /\ first = Absent
    /\ ncalls = 0
    /\ call = NoCall
    /\ threads \in [Threads -> {Frame(cs) : cs \in RaceLists}]

\* what no step of snapshot_trace touches
RaceFrame == UNCHANGED <<observers, showwarning, sinks_built, stats, logfile, syslogd,
                         ncalls, call>>

\* log.py:84: if trace_engines is None
RaceCheck(t) ==
    /\ threads[t].pc = "check"
    /\ threads' = [threads EXCEPT ![t].pc = IF IsNone(trace_engines) THEN "build"
                                            ELSE "now"]
    /\ first' = IF first.k = "absent" THEN PyList(threads[t].constrings) ELSE first
    /\ UNCHANGED <<trace_engines, traces, open_conns, clock, built>>
    /\ RaceFrame

\* log.py:85: one engine.create_engine(constr) of the list comprehension
RaceCreate(t) ==
    /\ threads[t].pc = "build"
    /\ Len(threads[t].local) < Len(threads[t].constrings)
    /\ threads' = [threads EXCEPT
                     ![t].local = Append(@, threads[t].constrings[Len(@) + 1])]
    /\ built' = IF threads[t].local = <<>> THEN built + 1 ELSE built
    /\ UNCHANGED <<trace_engines, traces, open_conns, clock, first>>
    /\ RaceFrame

\* log.py:85: the finished list is stored in the global
RaceAssign(t) ==
    /\ threads[t].pc = "build"
    /\ Len(threads[t].local) = Len(threads[t].constrings)
    /\ trace_engines' = AssignRegistry(trace_engines, threads[t].local)
    /\ threads' = [threads EXCEPT ![t].pc = "now"]
    /\ UNCHANGED <<traces, open_conns, clock, built, first>>
    /\ RaceFrame

\* log.py:87: now = datetime.utcnow()
RaceNow(t) ==
    /\ threads[t].pc = "now"
    /\ clock' = clock + 1
    /\ threads' = [threads EXCEPT ![t].now = clock, ![t].pc = "iter"]
    /\ UNCHANGED <<trace_engines, traces, open_conns, built, first>>
    /\ RaceFrame

\* log.py:88: the for statement reads the global once and iterates that list
RaceIter(t) ==
    /\ threads[t].pc = "iter"
    /\ threads' = [threads EXCEPT ![t].iter = trace_engines.s, ![t].pos = 1,
                                  ![t].pc = IF trace_engines.s = <<>> THEN "done"
                                            ELSE "connect"]
    /\ UNCHANGED <<trace_engines, traces, open_conns, clock, built, first>>
    /\ RaceFrame

\* log.py:89: conn = engine_instance.connect()
RaceConnect(t) ==
    /\ threads[t].pc = "connect"
    /\ open_conns' = [open_conns EXCEPT ![threads[t].iter[threads[t].pos]] = @ + 1]
    /\ threads' = [threads EXCEPT ![t].pc = "execute"]
    /\ UNCHANGED <<trace_engines, traces, clock, built, first>>
    /\ RaceFrame

\* log.py:91: conn.execute(traces.insert().values(...))
RaceExecute(t) ==
    /\ threads[t].pc = "execute"
    /\ traces' = [traces EXCEPT ![threads[t].iter[threads[t].pos]] =
                     Append(@, TraceRow(PyInt(t), TraceCode(PyInt(INFO)),
                                        PyStr(<<"m">>), threads[t].now))]
    /\ threads' = [threads EXCEPT ![t].pc = "close"]
    /\ UNCHANGED <<trace_engines, open_conns, clock, built, first>>
    /\ RaceFrame

\* log.py:93: conn.close(), and the loop goes on or ends
RaceClose(t) ==
    /\ threads[t].pc = "close"
    /\ open_conns' = [open_conns EXCEPT ![threads[t].iter[threads[t].pos]] = @ - 1]
    /\ threads' = [threads EXCEPT ![t].pos = @ + 1,
                                  ![t].pc = IF threads[t].pos < Len(threads[t].iter)
                                            THEN "connect" ELSE "done"]
    /\ UNCHANGED <<trace_engines, traces, clock, built, first>>
    /\ RaceFrame

NextRace ==
    \E t \in Threads :
        \/ RaceCheck(t)
        \/ RaceCreate(t)
        \/ RaceAssign(t)
        \/ RaceNow(t)
        \/ RaceIter(t)
        \/ RaceConnect(t)
        \/ RaceExecute(t)
        \/ RaceClose(t)

SpecRace == InitRace /\ [][NextRace]_vars

---------------------------------------------------------------------------
(* Direct calls of _adapt_eventdict *)

InitAdapt ==
    /\ observers = <<>>
    /\ showwarning = "default"
    /\ sinks_built = 0
    /\ trace_engines = PyNone
    /\ traces = [db \in DBs |-> <<>>]
    /\ open_conns = [db \in DBs |-> 0]
    /\ stats = <<>>
    /\ logfile = 0
    /\ syslogd = 0
    /\ clock = 0
    /\ built = 0
    /\ first = Absent
    /\ ncalls = 0
    /\ threads = <<>>
    /\ \E raw \in AdaptEvents, log_level \in AdaptLevels, encoding \in Encodings,
          prepend_level \in BOOLEAN :
          call = [NoCall EXCEPT !.op = "input", !.raw = raw,
                    !.obs = Observer("adapt", log_level, encoding, FALSE),
                    !.prepend = prepend_level,
                    !.heap = [r \in Refs |-> IF r = "eventDict" THEN raw ELSE EmptyDict]]

AdaptCall ==
    /\ call.op = "input"
    /\ \E a \in {_adapt_eventdict(call.heap, "eventDict", call.obs.level,
                                   call.obs.encoding, call.prepend)} :
          call' = [call EXCEPT !.op = "adapt", !.heap = a.heap, !.ret = a.ret,
                                !.adapted = a.ret]
    /\ UNCHANGED <<observers, showwarning, sinks_built, trace_engines, traces,
                   open_conns, stats, logfile, syslogd, clock, built, first, ncalls, threads>>

NextAdapt == AdaptCall

SpecAdapt == InitAdapt /\ [][NextAdapt]_vars

---------------------------------------------------------------------------
(* What the checks read off a call *)

\* the level of a raw event once an error without a level is taken as ERROR
EffectiveLevel(raw) ==
    IF raw["logLevel"].k = "absent" /\ raw["isError"].n # 0
    THEN PyInt(ERROR) ELSE raw["logLevel"]

\* the name a prefix is expected to show for a level
ExpectedName(level) ==
    CASE level.n = 10 -> "DEBUG"
      [] level.n = 20 -> "INFO"
      [] level.n = 30 -> "WARNING"
      [] level.n = 40 -> "ERROR"
      [] level.n = 50 -> "CRITICAL"
      [] level.n = 51 -> "SILENT"
      [] OTHER -> "NOLEVEL"

\* the tokens of a string in the observer's encoding
Encoded(x, encoding) == [i \in DOMAIN x.s |-> EncodeToken(x.s[i], encoding)]

IsText(v) == v.k \in {"str", "unicode"}

FromScrapy(raw) == raw["system"].k = "str" /\ raw["system"].s = <<"scrapy">>

---------------------------------------------------------------------------
(* Claims about _adapt_eventdict, checked under SpecAdapt *)

\* C1: a raw event with isError false whose system is not 'scrapy' (or that has
\* no system at all) is dropped: _adapt_eventdict returns None, whatever the
\* minimum level, the event's level and prepend_level are.
C1_OriginFilter ==
    (call.op = "adapt" /\ call.raw["isError"].n = 0 /\ ~FromScrapy(call.raw))
        => call.ret = NoneRef

\* C1 witness: an event without a system field, at CRITICAL with the minimum
\* level DEBUG, has been dropped
C1_Witness ==
    /\ call.op = "adapt"
    /\ call.raw["isError"].n = 0
    /\ call.raw["system"].k = "absent"
    /\ call.raw["logLevel"] = PyInt(CRITICAL)
    /\ call.obs.level = PyInt(DEBUG)
    /\ call.ret = NoneRef

\* C2: an event whose level (ERROR when isError is true and no level was given)
\* is below the minimum level is dropped, error or not; an event whose level is
\* at or above the minimum and that passes the origin filter is returned.
C2_SeverityFilter ==
    (call.op = "adapt" /\ EffectiveLevel(call.raw).k = "int") =>
        /\ EffectiveLevel(call.raw).n < call.obs.level.n => call.ret = NoneRef
        /\ (/\ EffectiveLevel(call.raw).n >= call.obs.level.n
            /\ (FromScrapy(call.raw) \/ call.raw["isError"].n # 0))
              => call.ret # NoneRef

\* C2 witness: an error without a level, taken as ERROR, dropped under SILENT
C2_Witness ==
    /\ call.op = "adapt"
    /\ call.raw["isError"].n # 0
    /\ call.raw["logLevel"].k = "absent"
    /\ call.obs.level = PyInt(SILENT)
    /\ call.ret = NoneRef

\* the adapted field is the encoded original behind '<LEVELNAME>: ' (prefixed) or
\* the encoded original alone
PrefixedOK(adapted, original, lvl, encoding) ==
    adapted = PyStr(<<ExpectedName(lvl), ": ">> \o Encoded(original, encoding))

PlainOK(adapted, original, encoding) == adapted = PyStr(Encoded(original, encoding))

\* what C6 says of the message of a returned event
MessageOK(c) ==
    LET orig == c.raw["message"]
        new == c.heap[c.ret]["message"]
        lvl == EffectiveLevel(c.raw)
        enc == c.obs.encoding
    IN (orig.k = "tuple" /\ orig.s # <<>>) =>
          /\ Len(new.s) = Len(orig.s)
          /\ IF c.prepend THEN PrefixedOK(new.s[1], orig.s[1], lvl, enc)
             ELSE PlainOK(new.s[1], orig.s[1], enc)
          /\ \A i \in 2..Len(orig.s) : PlainOK(new.s[i], orig.s[i], enc)

\* what C6 says of why or format, for the strings that satisfy Covered
StringOK(c, key, Covered(_)) ==
    LET orig == c.raw[key]
        new == c.heap[c.ret][key]
    IN (IsText(orig) /\ Covered(orig)) =>
          IF c.prepend
          THEN PrefixedOK(new, orig, EffectiveLevel(c.raw), c.obs.encoding)
          ELSE PlainOK(new, orig, c.obs.encoding)

AnyString(x) == TRUE
NonEmpty(x) == x.s # <<>>

\* C6 as stated: for every returned event, prepend_level = true gives a message
\* whose first fragment is '<LEVELNAME>: ' + the original first fragment, the later
\* fragments unchanged, and why and format as '<LEVELNAME>: ' + the original
\* string; prepend_level = false leaves all three unprefixed.
C6_AsStated ==
    (call.op = "adapt" /\ call.ret # NoneRef) =>
        /\ MessageOK(call)
        /\ StringOK(call, "why", AnyString)
        /\ StringOK(call, "format", AnyString)

\* C6 amended: the same for the message and for every non-empty why and format;
\* an empty why or format is left as it is, without a prefix (log.py:154, 161).
\* A level without a name shows as NOLEVEL.
C6_LevelPrefix ==
    (call.op = "adapt" /\ call.ret # NoneRef) =>
        /\ MessageOK(call)
        /\ StringOK(call, "why", NonEmpty)
        /\ StringOK(call, "format", NonEmpty)
        /\ \A key \in {"why", "format"} :
              (IsText(call.raw[key]) /\ call.raw[key].s = <<>>) =>
                  call.heap[call.ret][key] = call.raw[key]

\* C6 witness: a WARNING event ("disk low",) adapted with prepend_level = true
\* came back with the first fragment 'WARNING: disk low'
C6_Witness ==
    /\ call.op = "adapt"
    /\ call.prepend
    /\ call.raw["logLevel"] = PyInt(WARNING)
    /\ call.raw["message"] = PyTuple(<<PyStr(<<"disk low">>)>>)
    /\ call.raw["format"] = PyStr(<<"Crawled by ", "%(system)s">>)
    /\ call.ret # NoneRef
    /\ call.heap[call.ret]["message"].s[1] = PyStr(<<"WARNING", ": ", "disk low">>)
    /\ call.heap[call.ret]["format"] =
          PyStr(<<"WARNING", ": ", "Crawled by ", "%(system)s">>)

---------------------------------------------------------------------------
(* Claims about the observers, snapshot_trace and start, checked under Spec *)

\* snapshot_trace was called during call c
TraceCalled(c) == \E j \in DOMAIN c.effects : c.effects[j].e = "snapshot_trace"

\* create_engine returned an engine during call c
BuiltHere(c) == \E j \in DOMAIN c.effects : c.effects[j].e = "create_engine"

IsInsert(eff) == eff.e = "insert"

\* the inserts of call c in order, and the databases they went to
Inserted(c) == SelectSeq(c.effects, IsInsert)
InsertedDbs(c) == [j \in DOMAIN Inserted(c) |-> Inserted(c)[j].db]

\* request.meta of the raw event of call c
SnapshotIdOf(c) == c.raw["request"].s[1]
ConstringsOf(c) == c.raw["request"].s[2]

\* the code a row is expected to carry for a raw event
ExpectedCode(raw) ==
    IF EffectiveLevel(raw).n >= ERROR
    THEN 0 - EffectiveLevel(raw).n ELSE EffectiveLevel(raw).n

\* every row call c inserted carries its snapshot id, its code and one timestamp
RowsOK(c) ==
    \A j \in DOMAIN Inserted(c) :
        /\ Inserted(c)[j].row.snapshot_id = SnapshotIdOf(c)
        /\ Inserted(c)[j].row.code = ExpectedCode(c.raw)
        /\ Inserted(c)[j].row.created_at = Inserted(c)[j].row.updated_at

StatOf(st, name) == IF name \in DOMAIN st THEN st[name] ELSE 0

CounterNames ==
    {<<"log_count/", n>> :
        n \in {"DEBUG", "INFO", "WARNING", "ERROR", "CRITICAL", "SILENT", "NOLEVEL"}}

ExpectedCounter(c) == <<"log_count/", ExpectedName(EffectiveLevel(c.raw))>>

\* every counter moved by one step as Counted says: the counter of the event's
\* level by one when Counted, no counter otherwise
CountersMove(Counted) ==
    \A name \in CounterNames \cup DOMAIN stats \cup DOMAIN stats' :
        StatOf(stats', name) =
            StatOf(stats, name) +
                (IF Counted /\ name = ExpectedCounter(call') THEN 1 ELSE 0)

\* a step that is one call of a counter-wrapped observer
WrappedCall == call.op = "none" /\ call'.op = "emit" /\ call'.obs.crawler

\* C3 as stated: through a counter-wrapped sink, 'log_count/<LEVELNAME>' grows by
\* exactly one for every event the sink did not drop, the text-sink events whose
\* trace insert fails included, and by nothing else.
C3_AsStated ==
    [][WrappedCall => CountersMove(call'.adapted # NoneRef)]_vars

\* C3 amended: through a counter-wrapped sink, 'log_count/<LEVELNAME>' grows by
\* exactly one for every event for which the sink's _emit returned the adapted
\* event, and by nothing else; a non-dropped text-sink event whose trace step
\* raises is not counted.
C3_CounterExact ==
    [][WrappedCall => CountersMove(call'.adapted # NoneRef /\ call'.exc = "")]_vars

\* C3 witness: the second ERROR event through the counter-wrapped text sink,
\* traced without a failure, has brought log_count/ERROR to 2
C3_Witness ==
    /\ call.op = "emit"
    /\ call.obs.crawler
    /\ call.obs.cls = "file"
    /\ call.adapted # NoneRef
    /\ call.exc = ""
    /\ Len(Inserted(call)) > 0
    /\ StatOf(stats, <<"log_count/", "ERROR">>) = 2

\* C4 as stated: a trace call that carries snapshot id s, level L and k
\* connection strings inserts exactly k rows, each with snapshot_id = s, code = -L
\* when L >= ERROR and L otherwise, and created_at = updated_at.
C4_AsStated ==
    (call.op = "emit" /\ TraceCalled(call) /\ call.exc = ""
        /\ ConstringsOf(call).k = "list") =>
        /\ Len(Inserted(call)) = Len(ConstringsOf(call).s)
        /\ RowsOK(call)

\* C4 amended: a trace call that returns inserts exactly one row per engine of
\* the registry, in the registry's order: k rows, one per connection string, on
\* the call that builds the registry from its k strings, and as many rows as the
\* registry has engines on every later call, whatever list that call carries.
\* Each row has snapshot_id = s, code = -L when L >= ERROR and L otherwise, and
\* created_at = updated_at.
C4_TraceRows ==
    (call.op = "emit" /\ TraceCalled(call) /\ call.exc = "") =>
        /\ InsertedDbs(call) = trace_engines.s
        /\ BuiltHere(call) => trace_engines.s = ConstringsOf(call).s
        /\ RowsOK(call)

\* C4 witness: snapshot 42 was traced at ERROR and then at INFO into two
\* databases: the first rows carry -40, the second rows carry 20
C4_Witness ==
    /\ call.op = "emit"
    /\ call.exc = ""
    /\ TraceCalled(call)
    /\ SnapshotIdOf(call) = PyInt(42)
    /\ Len(ConstringsOf(call).s) = 2
    /\ \A db \in DBs :
          /\ Len(traces[db]) = 2
          /\ traces[db][1].snapshot_id = PyInt(42)
          /\ traces[db][1].code = 0 - ERROR
          /\ traces[db][2].snapshot_id = PyInt(42)
          /\ traces[db][2].code = INFO
          /\ traces[db][2].created_at = traces[db][2].updated_at

\* C5 as stated: engines are constructed during at most one snapshot_trace call
\* of the process, and when the first call carried a list every call that returns
\* has inserted into exactly the engines of that list.
C5_AsStated ==
    /\ built <= 1
    /\ (call.op = "emit" /\ TraceCalled(call) /\ call.exc = "" /\ first.k = "list") =>
          InsertedDbs(call) = first.s

\* the effects of call c that reach a database
ReachedDbs(c) ==
    {c.effects[j].db : j \in {i \in DOMAIN c.effects :
        c.effects[i].e \in {"connect", "connect_failed", "insert", "execute_failed",
                            "close"}}}

\* C5 amended: once a call has completed the build of the registry, no later call
\* constructs an engine or changes the registry, and every later call reaches the
\* engines of that build only, inserting into all of them in order when it
\* returns, whatever list it was passed.  (A build that raises leaves the
\* registry uninitialised and a later call builds again from its own list.)
C5_Frozen ==
    [][~IsNone(trace_engines) =>
          /\ trace_engines' = trace_engines
          /\ built' = built
          /\ (call.op = "none" /\ call'.op = "emit") =>
                /\ ~BuiltHere(call')
                /\ \A db \in ReachedDbs(call') :
                      \E j \in DOMAIN trace_engines.s : trace_engines.s[j] = db
                /\ (TraceCalled(call') /\ call'.exc = "") =>
                      InsertedDbs(call') = trace_engines.s]_vars

\* C5 witness: with the registry built from ['db_a'], a call that carried
\* ['db_b'] has inserted into db_a
C5_Witness ==
    /\ call.op = "emit"
    /\ call.exc = ""
    /\ trace_engines = PyList(<<"db_a">>)
    /\ first = PyList(<<"db_a">>)
    /\ built = 1
    /\ TraceCalled(call)
    /\ ConstringsOf(call) = PyList(<<"db_b">>)
    /\ InsertedDbs(call) = <<"db_a">>
    /\ Len(traces["db_a"]) = 2

\* the raw event lacks a request, a snapshot id or connection strings
LacksTraceMeta(raw) ==
    \/ raw["request"].k = "absent"
    \/ raw["request"].s[1].k = "absent"
    \/ raw["request"].s[2].k = "absent"
    \/ raw["request"].s[2].s = <<>>

\* C7 as stated: for a non-dropped text-sink event that lacks a request, a
\* snapshot id or connection strings, snapshot_trace is not called, no engine is
\* made and emit does not raise.
C7_AsStated ==
    (call.op = "emit" /\ call.obs.cls = "file" /\ call.adapted # NoneRef
        /\ LacksTraceMeta(call.raw)) =>
        /\ ~TraceCalled(call)
        /\ ~BuiltHere(call)
        /\ call.exc = ""

\* C8 as stated: emit as registered returns the adapted event when the event is
\* not dropped and None when it is, for the plain and the counter-wrapped sinks.
C8_AsStated ==
    (call.op = "emit" /\ call.exc = "") => call.ret = call.adapted

\* C9: after emit, and so after the _adapt_eventdict call in it and after the
\* text sink's rewrite of ev['format'], the caller's eventDict has the fields and
\* values it had before, dropped or not.
C9_CopyOnAdapt ==
    call.op = "emit" => call.heap["eventDict"] = call.raw

\* C9 witness: the text sink has traced an event, its copy's format rewritten to
\* start with 'Scrapy: ', and the caller's dict still holds the original format
C9_Witness ==
    /\ call.op = "emit"
    /\ call.obs.cls = "file"
    /\ Len(Inserted(call)) > 0
    /\ call.heap["copy"]["format"].s[1] = "Scrapy: "
    /\ call.raw["format"] = PyStr(<<"Crawled by ", "%(system)s">>)
    /\ call.heap["eventDict"]["format"] = call.raw["format"]

\* the argument names one of the six levels or is one of their numbers
IsLevel(arg) ==
    \/ /\ arg.k \in {"str", "unicode"}
       /\ arg.s \in {<<"DEBUG">>, <<"INFO">>, <<"WARNING">>, <<"ERROR">>, <<"CRITICAL">>,
                     <<"SILENT">>}
    \/ /\ arg.k = "int"
       /\ arg.n \in {DEBUG, INFO, WARNING, ERROR, CRITICAL, SILENT}

\* C10 as stated: start with a loglevel that is neither a level name nor a level
\* number raises, with no observer constructed or registered and
\* warnings.showwarning untouched.
C10_AsStated ==
    (call.op = "start" /\ ~IsLevel(call.arg)) =>
        /\ call.exc # ""
        /\ observers = <<>>
        /\ sinks_built = 0
        /\ showwarning = "default"

\* the position of the first effect named e in call c (0: there is none)
FirstEffect(c, e) ==
    IF \E j \in DOMAIN c.effects : c.effects[j].e = e
    THEN CHOOSE j \in DOMAIN c.effects :
            /\ c.effects[j].e = e
            /\ \A i \in 1..(j - 1) : c.effects[i].e # e
    ELSE 0

\* C11: a start that completes leaves warnings.showwarning the handler it was
\* before the call, although startLoggingWithObserver replaced it in between,
\* and has registered the text observer and then the syslog observer.
C11_WarningsPreserved ==
    [][(call.op = "none" /\ call'.op = "start" /\ call'.exc = "") =>
          /\ showwarning' = showwarning
          /\ \E j \in DOMAIN call'.effects :
                /\ call'.effects[j] = Effect("showwarning", "twisted", NoRow)
                /\ FirstEffect(call', "startLoggingWithObserver") < j
                /\ call'.effects[Len(call'.effects)] =
                      Effect("showwarning", showwarning, NoRow)
          /\ Len(observers') = Len(observers) + 2
          /\ observers'[Len(observers) + 1].cls = "file"
          /\ observers'[Len(observers) + 2].cls = "syslog"
          /\ FirstEffect(call', "startLoggingWithObserver") > 0
          /\ FirstEffect(call', "startLoggingWithObserver")
                < FirstEffect(call', "addObserver")]_vars

\* C11 witness: start('INFO') has returned: both observers are registered, the
\* text observer first, twisted's handler was installed during the call and the
\* handler is the default one again
C11_Witness ==
    /\ call.op = "start"
    /\ call.exc = ""
    /\ call.arg = PyStr(<<"INFO">>)
    /\ Len(observers) = 2
    /\ observers[1].cls = "file"
    /\ observers[2].cls = "syslog"
    /\ \E j \in DOMAIN call.effects :
          call.effects[j] = Effect("showwarning", "twisted", NoRow)
    /\ showwarning = "default"

\* the effects of call c that belong to trace persistence
IsTraceEffect(eff) ==
    eff.e \in {"snapshot_trace", "create_engine", "create_engine_failed", "connect",
               "connect_failed", "insert", "execute_failed", "close"}

\* C12: in a text-sink call that reaches trace persistence, the text line is
\* written before snapshot_trace is entered, so before any engine is made, any
\* row is inserted or any insert fails, and the counter increment, if there is
\* one, comes after the line and after every insert.
C12_TextBeforeTrace ==
    (call.op = "emit" /\ call.obs.cls = "file"
        /\ \E j \in DOMAIN call.effects : IsTraceEffect(call.effects[j])) =>
        /\ FirstEffect(call, "write") > 0
        /\ \A j \in DOMAIN call.effects :
              IsTraceEffect(call.effects[j]) => FirstEffect(call, "write") < j
        /\ \A j \in DOMAIN call.effects :
              call.effects[j].e = "inc_value" =>
                 \A i \in DOMAIN call.effects :
                    (call.effects[i].e = "write" \/ IsTraceEffect(call.effects[i]))
                       => i < j

\* C12 witness: the counter-wrapped text sink wrote the line, inserted into two
\* engines and then counted the event
C12_Witness ==
    /\ call.op = "emit"
    /\ call.obs.cls = "file"
    /\ call.obs.crawler
    /\ call.exc = ""
    /\ FirstEffect(call, "write") = 1
    /\ Len(Inserted(call)) = 2
    /\ FirstEffect(call, "inc_value") = Len(call.effects)

\* C12 witness of the failing case: the insert failed after the line was written
C12_WitnessFailed ==
    /\ call.op = "emit"
    /\ call.exc = "OperationalError"
    /\ FirstEffect(call, "write") = 1
    /\ FirstEffect(call, "execute_failed") > 1
    /\ logfile > 0

\* the position of the failed connect or insert in call c (0: none failed)
FailedAt(c) ==
    IF FirstEffect(c, "execute_failed") > 0 THEN FirstEffect(c, "execute_failed")
    ELSE FirstEffect(c, "connect_failed")

\* the rows call c inserted into db, in order
RowsInto(c, db) ==
    LET Into(eff) == eff.e = "insert" /\ eff.db = db
        ins == SelectSeq(c.effects, Into)
    IN [j \in DOMAIN ins |-> ins[j].row]

\* C13: when the connect or the insert for engine N of the registry fails during
\* a call, the failure comes out of emit, the engines before N have their row and
\* keep it with the rows that were there, engine N and the engines after it get
\* no row, nothing but the release of engine N's connection follows the failure,
\* and the registry is initialised, and is the one the call found if it found one.
C13_FailureAborts ==
    [][(call.op = "none" /\ call'.op = "emit" /\ FailedAt(call') > 0) =>
          LET N == Len(Inserted(call')) + 1
              failed == call'.effects[FailedAt(call')]
          IN /\ call'.exc = "OperationalError"
             /\ call'.ret = NoneRef
             /\ ~IsNone(trace_engines')
             /\ ~IsNone(trace_engines) => trace_engines' = trace_engines
             /\ N <= Len(trace_engines'.s)
             /\ failed.db = trace_engines'.s[N]
             /\ InsertedDbs(call') = SubSeq(trace_engines'.s, 1, N - 1)
             /\ \A db \in DBs : traces'[db] = traces[db] \o RowsInto(call', db)
             /\ \A j \in DOMAIN call'.effects :
                   j > FailedAt(call') =>
                      /\ call'.effects[j].e = "close"
                      /\ call'.effects[j].db = failed.db
                      /\ failed.e = "execute_failed"
                      /\ j = FailedAt(call') + 1]_vars

\* C13 witness: with the registry ['db_a', 'db_b'] the insert into db_b failed:
\* db_a has the row and db_b has none
C13_Witness ==
    /\ call.op = "emit"
    /\ call.exc = "OperationalError"
    /\ trace_engines = PyList(<<"db_a", "db_b">>)
    /\ FirstEffect(call, "execute_failed") > 0
    /\ call.effects[FirstEffect(call, "execute_failed")].db = "db_b"
    /\ InsertedDbs(call) = <<"db_a">>
    /\ Len(traces["db_a"]) = 1
    /\ Len(traces["db_b"]) = 0

\* the connections open after the first j effects of call c
OpenAfter(c, j) ==
    Cardinality({i \in 1..j : c.effects[i].e = "connect"})
        - Cardinality({i \in 1..j : c.effects[i].e = "close"})

\* C14: no connection is open after a call, returned or raised; within a call at
\* most one connection is open at a time, and every connection acquired is
\* released right after its insert, whether the insert succeeded or failed.
C14_ConnectionsReleased ==
    /\ \A db \in DBs : open_conns[db] = 0
    /\ \A j \in DOMAIN call.effects :
          /\ OpenAfter(call, j) \in {0, 1}
          /\ call.effects[j].e = "connect" =>
                /\ j + 2 <= Len(call.effects)
                /\ call.effects[j + 1].e \in {"insert", "execute_failed"}
                /\ call.effects[j + 1].db = call.effects[j].db
                /\ call.effects[j + 2].e = "close"
                /\ call.effects[j + 2].db = call.effects[j].db

\* C14 witness: the insert into the second engine failed; both connections were
\* acquired and released and none is open
C14_Witness ==
    /\ call.op = "emit"
    /\ call.exc = "OperationalError"
    /\ FirstEffect(call, "execute_failed") > 0
    /\ Cardinality({j \in DOMAIN call.effects : call.effects[j].e = "connect"}) = 2
    /\ Cardinality({j \in DOMAIN call.effects : call.effects[j].e = "close"}) = 2
    /\ call.effects[Len(call.effects)].e = "close"
    /\ \A db \in DBs : open_conns[db] = 0

\* call c carries a list of one or more connection strings sqlalchemy accepts
CarriesStrings(c) ==
    /\ ConstringsOf(c).k = "list"
    /\ ConstringsOf(c).s # <<>>
    /\ \A j \in DOMAIN ConstringsOf(c).s : ConstringsOf(c).s[j] \in DBs

\* C15 as stated: a snapshot_trace call with an empty list leaves the registry
\* uninitialised, and a call that carries connection strings while the registry
\* holds no engine (after empty lists or failed builds only) builds the registry
\* from its list and, no database failing, inserts one row per string.
C15_AsStated ==
    [][(call.op = "none" /\ call'.op = "emit" /\ TraceCalled(call')) =>
          /\ (IsNone(trace_engines) /\ ConstringsOf(call') = PyList(<<>>)) =>
                IsNone(trace_engines')
          /\ ((IsNone(trace_engines) \/ trace_engines = PyList(<<>>))
                /\ CarriesStrings(call') /\ FailedAt(call') = 0) =>
                /\ trace_engines' = ConstringsOf(call')
                /\ InsertedDbs(call') = ConstringsOf(call').s]_vars

\* the raw event of call c has a request with a snapshot id that counts as one
HasSnapshotId(c) ==
    /\ c.raw["request"].k = "Request"
    /\ Truthy(MetaGet(c.raw["request"], "politepol_snapshot_id"))

\* C17 as stated: a non-dropped text-sink event that carries a snapshot id and
\* connection strings gets through emit to snapshot_trace with a rendered text
\* and emit does not raise, no database failing, wherever the event carries its
\* text (message, why or format).
C17_AsStated ==
    (call.op = "emit" /\ call.obs.cls = "file" /\ call.adapted # NoneRef
        /\ HasSnapshotId(call) /\ CarriesStrings(call) /\ FailedAt(call) = 0) =>
        /\ call.exc = ""
        /\ TraceCalled(call)
        /\ \A j \in DOMAIN Inserted(call) : ~IsNone(Inserted(call)[j].row.message)

\* the raw event fails the origin filter or the severity filter of the observer.
\* A missing level reads as None, which Python 2 orders below every minimum, and
\* a minimum that is not a number is ordered above every level.
FailsFilter(raw, obs) ==
    \/ raw["isError"].n = 0 /\ ~FromScrapy(raw)
    \/ IF EffectiveLevel(raw).k = "int" /\ obs.level.k = "int"
       THEN EffectiveLevel(raw).n < obs.level.n
       ELSE TRUE

\* C18: a call of a sink, plain or counter-wrapped, on an event that fails its
\* origin or severity filter writes no text line and no syslog entry, increments
\* no counter, inserts no row, opens no connection, leaves the registry as it
\* was and does not raise.
C18_DroppedNoEffects ==
    [][(call.op = "none" /\ call'.op = "emit" /\ FailsFilter(call'.raw, call'.obs)) =>
          /\ call'.adapted = NoneRef
          /\ call'.exc = ""
          /\ call'.effects = <<>>
          /\ UNCHANGED <<logfile, syslogd, stats, traces, open_conns, trace_engines,
                         built, clock>>]_vars

\* C18 witness: the counter-wrapped text sink has dropped an event from outside
\* scrapy that carried snapshot id 42 and a connection string: nothing happened
C18_Witness ==
    /\ call.op = "emit"
    /\ call.obs.cls = "file"
    /\ call.obs.crawler
    /\ call.obs.level = PyInt(INFO)
    /\ call.raw["isError"].n = 0
    /\ ~FromScrapy(call.raw)
    /\ HasSnapshotId(call)
    /\ CarriesStrings(call)
    /\ call.adapted = NoneRef
    /\ call.effects = <<>>
    /\ IsNone(trace_engines)
    /\ logfile = 0

\* C19: a call of the syslog sink, whatever the event carries, inserts no row,
\* makes no engine, opens no connection and leaves the registry as it was: rows
\* and registry change in calls of the text sink only.
C19_SyslogNoTrace ==
    [][/\ (call.op = "none" /\ call'.op = "emit" /\ call'.obs.cls = "syslog") =>
             /\ UNCHANGED <<traces, trace_engines, built, first, open_conns, clock>>
             /\ \A j \in DOMAIN call'.effects : ~IsTraceEffect(call'.effects[j])
       /\ (traces' # traces \/ trace_engines' # trace_engines) =>
             (call'.op = "emit" /\ call'.obs.cls = "file")]_vars

\* C19 witness: the syslog sink has written an event that carried snapshot id 42
\* and connection strings; there is no registry and no row
C19_Witness ==
    /\ call.op = "emit"
    /\ call.obs.cls = "syslog"
    /\ call.adapted # NoneRef
    /\ FirstEffect(call, "syslog") = 1
    /\ HasSnapshotId(call)
    /\ CarriesStrings(call)
    /\ IsNone(trace_engines)
    /\ \A db \in DBs : traces[db] = <<>>
    /\ syslogd = 1

\* every counter moved by one step as n says: the counter of the event's level
\* by n, no other counter
CountersMoveBy(n) ==
    \A name \in CounterNames \cup DOMAIN stats \cup DOMAIN stats' :
        StatOf(stats', name) =
            StatOf(stats, name) + (IF name = ExpectedCounter(call') THEN n ELSE 0)

\* C20 as stated: with both observers counter-wrapped by start, an event that
\* reaches both, that their filter does not drop and whose trace write does not
\* fail raises 'log_count/<LEVELNAME>' by exactly two and no other counter.
C20_AsStated ==
    [][(call.op = "none" /\ call'.op = "log" /\ call'.obs.crawler
          /\ ~FailsFilter(call'.raw, call'.obs)
          /\ ~(TraceCalled(call') /\ call'.exc # "")) =>
          /\ observers[2].crawler
          /\ observers[2].level = observers[1].level
          /\ CountersMoveBy(2)]_vars

---------------------------------------------------------------------------
(* Claims about concurrent snapshot_trace calls, checked under SpecRace *)

\* the rows of thread t's call in db
RowsOf(t, db) ==
    LET Mine(row) == row.snapshot_id = PyInt(t)
    IN SelectSeq(traces[db], Mine)

\* C16: the check of the registry and its assignment are separate steps with
\* nothing to guard them: a call that found the registry uninitialised makes its
\* engines whatever happened since, and its assignment stores its own list over
\* whatever another call has stored meanwhile; each call inserts into the list
\* it read when its loop began.
C16_LazyInitRace ==
    [][\A t \in Threads :
          /\ (threads[t].pc = "check" /\ threads'[t].pc # "check"
                /\ IsNone(trace_engines)) => threads'[t].pc = "build"
          /\ (threads[t].pc = "build" /\ threads'[t].pc = "now") =>
                trace_engines' = PyList(threads[t].constrings)
          /\ (threads[t].pc = "iter" /\ threads'[t].pc # "iter") =>
                threads'[t].iter = trace_engines.s
          /\ (threads[t].pc = "execute" /\ threads'[t].pc = "close") =>
                \E db \in DBs :
                   /\ db = threads[t].iter[threads[t].pos]
                   /\ Len(traces'[db]) = Len(traces[db]) + 1]_vars

\* C16 witness: both calls found the registry uninitialised and both made
\* engines; thread 1 stored ['db_a'] and inserted into db_a, then thread 2 stored
\* ['db_b'] over it and inserted into db_b
C16_Witness ==
    /\ DOMAIN threads = Threads
    /\ \A t \in Threads : threads[t].pc = "done"
    /\ threads[1].constrings = <<"db_a">>
    /\ threads[2].constrings = <<"db_b">>
    /\ built = 2
    /\ trace_engines = PyList(<<"db_b">>)
    /\ Len(RowsOf(1, "db_a")) = 1
    /\ Len(RowsOf(1, "db_b")) = 0
    /\ Len(RowsOf(2, "db_b")) = 1
    /\ Len(RowsOf(2, "db_a")) = 0

====
